---------------------------- MODULE Spec2Model ----------------------------
(***************************************************************************)
(* Model of metrics_report.py: the KPI engine (compute_kpis), the history  *)
(* appender (append_metrics), the loader (load_data, _pick_layout) and the *)
(* driver (main).                                                          *)
(*                                                                         *)
(* Numbers.  A float is an exact rational [n, d] with d > 0 in lowest      *)
(* terms, or NaN (d = 0).  A table (DataFrame) is a record                 *)
(* [cols |-> set of column names, rows |-> sequence of row records].  A    *)
(* row record carries every field; the field of a column that is not in    *)
(* cols holds NaN and is never read by the code.                           *)
(***************************************************************************)
EXTENDS Integers, Sequences, FiniteSets, TLC

VARIABLES placements, layout, inventory, results, clock,
          files, history, log,
          pc, existing

vars == <<placements, layout, inventory, results, clock, files, history, log, pc, existing>>

-----------------------------------------------------------------------------
(* Floats as rationals; np.nan *)

NaN == [n |-> 0, d |-> 0]

IsNaN(v) == v.d = 0

Num(i) == [n |-> i, d |-> 1]

Abs(i) == IF i < 0 THEN -i ELSE i

RECURSIVE Gcd(_, _)
Gcd(a, b) == IF b = 0 THEN a ELSE Gcd(b, a % b)

\* the rational n/d (d # 0) in lowest terms with a positive denominator
Norm(n, d) ==
    LET g == Gcd(Abs(n), Abs(d))
        s == IF d < 0 THEN -1 ELSE 1
    IN  [n |-> (s * n) \div g, d |-> (s * d) \div g]

\* float + float: NaN absorbs
Add(a, b) == IF IsNaN(a) \/ IsNaN(b) THEN NaN ELSE Norm(a.n * b.d + b.n * a.d, a.d * b.d)

\* float * float: NaN absorbs
Mul(a, b) == IF IsNaN(a) \/ IsNaN(b) THEN NaN ELSE Norm(a.n * b.n, a.d * b.d)

\* float / float; every division of compute_kpis is guarded against a zero
\* divisor (replace(0, nan), total_capacity > 0, den > 0, a non-empty mean)
Div(a, b) == IF IsNaN(a) \/ IsNaN(b) \/ b.n = 0 THEN NaN ELSE Norm(a.n * b.d, a.d * b.n)

\* a < b on floats: any comparison with NaN is False
Less(a, b) == ~IsNaN(a) /\ ~IsNaN(b) /\ a.n * b.d < b.n * a.d

\* the non-negative integer root of a perfect square (np.sqrt on the sampled coordinates)
Sqrt(k) == CHOOSE r \in 0..k : r * r = k

\* Series.sum(): skips NaN, 0.0 for an empty or all-NaN series
RECURSIVE SumSkipNa(_)
SumSkipNa(s) ==
    IF s = <<>> THEN Num(0)
    ELSE IF IsNaN(Head(s)) THEN SumSkipNa(Tail(s))
    ELSE Add(Head(s), SumSkipNa(Tail(s)))

NotNa(s) == SelectSeq(s, LAMBDA v : ~IsNaN(v))

\* Series.mean(): mean of the non-NaN values, NaN when there are none
Mean(s) == IF NotNa(s) = <<>> THEN NaN ELSE Div(SumSkipNa(s), Num(Len(NotNa(s))))

\* (boolean Series).mean(): the fraction of True
BoolMean(s) == Div(Num(Len(SelectSeq(s, LAMBDA b : b))), Num(Len(s)))

Map(f(_), s) == [i \in 1..Len(s) |-> f(s[i])]

RECURSIVE Flatten(_)
Flatten(ss) == IF ss = <<>> THEN <<>> ELSE Head(ss) \o Flatten(Tail(ss))

-----------------------------------------------------------------------------
(* compute_kpis *)

UNPLACED == "UNPLACED"

\* a missing value in a string column
Null == "<NA>"

OptionalPlacementCols == {"allocated_volume", "allocated_weight", "remaining_size", "remaining_weight"}

\* lines 74-78: the layout table the rest of compute_kpis reads
DistanceLayout(l) ==
    IF {"x_coord", "y_coord"} \subseteq l.cols
    THEN [cols |-> l.cols \cup {"distance"},
          rows |-> Map(LAMBDA r : [r EXCEPT !.distance =
                                      Num(Sqrt(r.x_coord * r.x_coord + r.y_coord * r.y_coord))], l.rows)]
    ELSE [cols |-> l.cols \cup {"distance"},
          rows |-> Map(LAMBDA r : [r EXCEPT !.distance = NaN], l.rows)]

\* lines 74-78: the caller's layout object once the distance step has run: the
\* coordinate branch works on a copy, the other branch assigns the column in place
LayoutAfter(l) ==
    IF {"x_coord", "y_coord"} \subseteq l.cols THEN l ELSE DistanceLayout(l)

\* lines 81-83: absent optional columns are created, filled with NaN, in place
EnsureColumns(p) == [p EXCEPT !.cols = p.cols \cup OptionalPlacementCols]

\* a variant of PlacementsAfter: the remaining_size filter of line 114 applied
\* to the caller's table instead of a copy
PlacementsAfterFilteredInPlace(p) ==
    [cols |-> p.cols \cup OptionalPlacementCols,
     rows |-> SelectSeq(p.rows, LAMBDA r : ~IsNaN(r.remaining_size))]

\* the caller's placements object after the call: lines 81-83 assign in place,
\* line 112 and line 114 work on copies
PlacementsAfter(p) == EnsureColumns(p)

\* line 85: the column selection and the join key must exist
MergeRaises(p, l) ==
    \/ ~({"location_id", "distance", "max_size", "max_weight"} \subseteq l.cols)
    \/ "recommended_location" \notin p.cols

MergedRow(pr, dist, size) ==
    [item_id |-> pr.item_id, recommended_location |-> pr.recommended_location,
     allocated_volume |-> pr.allocated_volume, remaining_size |-> pr.remaining_size,
     distance |-> dist, max_size |-> size]

\* line 85: left join of one placement row: one row per matching layout row, or
\* one row with undefined distance and capacity when none matches
JoinRow(pr, l) ==
    LET hits == SelectSeq(l.rows, LAMBDA r : r.location_id = pr.recommended_location)
    IN  IF hits = <<>> THEN << MergedRow(pr, NaN, NaN) >>
        ELSE Map(LAMBDA r : MergedRow(pr, r.distance, r.max_size), hits)

\* line 85
Merged(p, l) == Flatten(Map(LAMBDA pr : JoinRow(pr, l), p.rows))

\* line 88
IsPlaced(r) == r.recommended_location # Null /\ r.recommended_location # UNPLACED

Placed(merged) == SelectSeq(merged, IsPlaced)

Column(rows, f(_)) == Map(f, rows)

\* line 90
AvgDistance(placed) ==
    IF placed # <<>> THEN Mean(Column(placed, LAMBDA r : r.distance)) ELSE NaN

\* a variant of UnplacedRate: the rate taken over the placed subset
UnplacedRateOverPlaced(merged) ==
    LET placed == SelectSeq(merged, IsPlaced)
    IN  IF placed # <<>>
        THEN BoolMean(Column(placed, LAMBDA r : r.recommended_location = UNPLACED))
        ELSE NaN

\* line 91
UnplacedRate(merged) ==
    IF merged # <<>> THEN BoolMean(Column(merged, LAMBDA r : r.recommended_location = UNPLACED))
    ELSE NaN

\* line 94
AllocRows(placed) == SelectSeq(placed, LAMBDA r : ~IsNaN(r.allocated_volume))

\* line 98
TotalAllocatedVolume(alloc_rows) ==
    IF alloc_rows # <<>> THEN SumSkipNa(Column(alloc_rows, LAMBDA r : r.allocated_volume))
    ELSE Num(0)

\* groupby "first": the first non-null value of the group, NaN when there is none
First(s) == IF NotNa(s) = <<>> THEN NaN ELSE Head(NotNa(s))

\* replace(0, np.nan)
ReplaceZero(v) == IF ~IsNaN(v) /\ v.n = 0 THEN NaN ELSE v

\* lines 100-104: one aggregate per recommended_location of alloc_rows
ShelfUtil(alloc_rows) ==
    LET keys == {alloc_rows[i].recommended_location : i \in 1..Len(alloc_rows)}
        grp(k) == SelectSeq(alloc_rows, LAMBDA r : r.recommended_location = k)
        vol(k) == SumSkipNa(Column(grp(k), LAMBDA r : r.allocated_volume))
        size(k) == First(Column(grp(k), LAMBDA r : r.max_size))
    IN  [k \in keys |-> [allocated_volume |-> vol(k), max_size |-> size(k),
                         utilization |-> Div(vol(k), ReplaceZero(size(k)))]]

\* the values of a keyed aggregate as a sequence (in some order)
RECURSIVE Values(_, _)
Values(f, ks) ==
    IF ks = {} THEN <<>>
    ELSE LET k == CHOOSE x \in ks : TRUE IN << f[k] >> \o Values(f, ks \ {k})

\* line 105
AvgCubeUtil(alloc_rows) ==
    IF alloc_rows # <<>>
    THEN LET su == ShelfUtil(alloc_rows)
         IN  Mean(Values([k \in DOMAIN su |-> su[k].utilization], DOMAIN su))
    ELSE NaN

\* the threshold 0.1 of line 106
FragThreshold == [n |-> 1, d |-> 10]

\* a variant of IsFragmented: the upper end of the interval included
IsFragmentedInclusive(u) == Less(Num(0), u) /\ ~Less(FragThreshold, u)

\* line 106: the row filter of the numerator
IsFragmented(u) == Less(Num(0), u) /\ Less(u, FragThreshold)

\* line 106
FragmentationRate(alloc_rows) ==
    IF alloc_rows # <<>>
    THEN LET su == ShelfUtil(alloc_rows)
         IN  IF Cardinality(DOMAIN su) # 0
             THEN Div(Num(Cardinality({k \in DOMAIN su : IsFragmented(su[k].utilization)})),
                      Num(Cardinality(DOMAIN su)))
             ELSE NaN
    ELSE NaN

\* line 108
TotalCapacity(l) ==
    IF "max_size" \in l.cols THEN SumSkipNa(Column(l.rows, LAMBDA r : r.max_size)) ELSE NaN

\* "total_capacity and total_capacity > 0": NaN is truthy but not > 0, 0.0 is falsy
CapacityOk(total_capacity) == Less(Num(0), total_capacity)

\* line 109
CapacityRatio(total_allocated_volume, total_capacity) ==
    IF CapacityOk(total_capacity) THEN Div(total_allocated_volume, total_capacity) ELSE NaN

\* lines 112-116: the rows with a defined remaining_size, in file order, and of
\* these the last one of each recommended_location (groupby drops the rows
\* whose key is missing)
LatestLast(p) ==
    LET latest == SelectSeq(p.rows, LAMBDA r : ~IsNaN(r.remaining_size))
        isLast(i) == /\ latest[i].recommended_location # Null
                     /\ \A j \in (i + 1)..Len(latest) :
                            latest[j].recommended_location # latest[i].recommended_location
        RECURSIVE pick(_)
        pick(i) == IF i > Len(latest) THEN <<>>
                   ELSE (IF isLast(i) THEN << latest[i] >> ELSE <<>>) \o pick(i + 1)
    IN  pick(1)

\* lines 113-119
FreeEffectiveCapacityRatio(p, total_capacity) ==
    IF "remaining_size" \in p.cols
    THEN LET latest_last == LatestLast(p)
         IN  IF CapacityOk(total_capacity) /\ latest_last # <<>>
             THEN Div(SumSkipNa(Column(latest_last, LAMBDA r : r.remaining_size)), total_capacity)
             ELSE NaN
    ELSE NaN

\* line 121
PlacementsWithCapacityColsRatio(p) ==
    IF p.rows # <<>> THEN BoolMean(Column(p.rows, LAMBDA r : ~IsNaN(r.allocated_volume)))
    ELSE NaN

\* line 126: left join of the placed rows to inventory on item_id; each result
\* row is <<distance, demand_frequency>>
JoinInventory(placed, inv) ==
    LET one(r) ==
          LET hits == SelectSeq(inv.rows, LAMBDA v : v.item_id = r.item_id)
          IN  IF hits = <<>> THEN << [distance |-> r.distance, demand_frequency |-> NaN] >>
              ELSE Map(LAMBDA v : [distance |-> r.distance,
                                   demand_frequency |-> v.demand_frequency], hits)
    IN  Flatten(Map(one, placed))

\* lines 124-132
WeightedDistance(placed, inv) ==
    IF inv.present /\ "demand_frequency" \in inv.cols
    THEN LET placed_inv == SelectSeq(JoinInventory(placed, inv),
                                     LAMBDA r : ~IsNaN(r.demand_frequency))
             num == SumSkipNa(Column(placed_inv, LAMBDA r : Mul(r.distance, r.demand_frequency)))
             den == SumSkipNa(Column(placed_inv, LAMBDA r : r.demand_frequency))
         IN  IF placed_inv # <<>> /\ Less(Num(0), den) THEN Div(num, den) ELSE NaN
    ELSE NaN

\* lines 134-147: the keys of the returned dict, in order
SnapshotKeys ==
    << "timestamp", "rows", "placed_rows", "avg_distance", "weighted_distance", "unplaced_rate",
       "avg_cube_utilization", "fragmentation_rate", "total_allocated_volume", "capacity_ratio",
       "free_effective_capacity_ratio", "placements_with_capacity_cols_ratio" >>

\* lines 72-147 once the join has succeeded; p and l are the tables after lines 74-83
Snapshot(p, l, inv, now) ==
    LET merged == Merged(p, l)
        placed == Placed(merged)
        alloc_rows == AllocRows(placed)
        total_allocated_volume == TotalAllocatedVolume(alloc_rows)
        total_capacity == TotalCapacity(l)
    IN  [timestamp |-> now,
         rows |-> Len(p.rows),
         placed_rows |-> Len(placed),
         avg_distance |-> AvgDistance(placed),
         weighted_distance |-> WeightedDistance(placed, inv),
         unplaced_rate |-> UnplacedRate(merged),
         avg_cube_utilization |-> AvgCubeUtil(alloc_rows),
         fragmentation_rate |-> FragmentationRate(alloc_rows),
         total_allocated_volume |-> total_allocated_volume,
         capacity_ratio |-> CapacityRatio(total_allocated_volume, total_capacity),
         free_effective_capacity_ratio |-> FreeEffectiveCapacityRatio(p, total_capacity),
         placements_with_capacity_cols_ratio |-> PlacementsWithCapacityColsRatio(p)]

\* the value of an outcome that carries no snapshot
NoSnapshot ==
    [timestamp |-> 0, rows |-> 0, placed_rows |-> 0, avg_distance |-> NaN,
     weighted_distance |-> NaN, unplaced_rate |-> NaN, avg_cube_utilization |-> NaN,
     fragmentation_rate |-> NaN, total_allocated_volume |-> NaN, capacity_ratio |-> NaN,
     free_effective_capacity_ratio |-> NaN, placements_with_capacity_cols_ratio |-> NaN]

\* compute_kpis(placements, layout, inventory) at clock reading now: what it
\* returns or raises, and the caller's two table objects afterwards
compute_kpis(p, l, inv, now) ==
    LET p1 == EnsureColumns(p)
        l1 == DistanceLayout(l)
    IN  [status |-> IF MergeRaises(p1, l1) THEN "KeyError" ELSE "ok",
         snapshot |-> IF MergeRaises(p1, l1) THEN NoSnapshot ELSE Snapshot(p1, l1, inv, now),
         placements |-> PlacementsAfter(p),
         layout |-> LayoutAfter(l)]

-----------------------------------------------------------------------------
(* The history table: DataFrame cells, CSV text, append_metrics *)

\* A DataFrame cell is [t, n, d]: t = "int" (value n), "float" (value n/d, NaN
\* when d = 0) or "str" (the string named n).  A CSV field is [k, n, d]:
\* k = "empty", "digits" (an integer literal), "decimal" (a literal with a
\* decimal point) or "text".
IntCell(i) == [t |-> "int", n |-> i, d |-> 1]

FloatCell(v) == [t |-> "float", n |-> v.n, d |-> v.d]

StrCell(i) == [t |-> "str", n |-> i, d |-> 1]

NaNCell == FloatCell(NaN)

\* line 151: pd.DataFrame([row]) of a snapshot dict: the keys in order, one
\* row, each cell typed by its Python value
SnapshotFrame(snap) ==
    [columns |-> SnapshotKeys,
     rows |-> << [k \in DOMAIN snap |->
                    IF k = "timestamp" THEN StrCell(snap[k])
                    ELSE IF k \in {"rows", "placed_rows"} THEN IntCell(snap[k])
                    ELSE FloatCell(snap[k])] >>]

\* to_csv of one cell: NaN is written as the empty field, a float with its
\* decimal point, an int as digits
FormatCell(c) ==
    IF c.t = "float" /\ c.d = 0 THEN [k |-> "empty", n |-> 0, d |-> 0]
    ELSE IF c.t = "float" THEN [k |-> "decimal", n |-> c.n, d |-> c.d]
    ELSE IF c.t = "int" THEN [k |-> "digits", n |-> c.n, d |-> 1]
    ELSE [k |-> "text", n |-> c.n, d |-> 1]

\* lines 155, 157: to_csv(METRICS_FILE, index=False): the header, then one line per row
ToCsv(df) ==
    [exists |-> TRUE,
     header |-> df.columns,
     lines |-> Map(LAMBDA r : [c \in DOMAIN r |-> FormatCell(r[c])], df.rows)]

\* read_csv's type of a column, inferred from all of its fields
ColumnType(fields) ==
    IF fields # {} /\ \A f \in fields : f.k = "digits" THEN "int"
    ELSE IF \A f \in fields : f.k \in {"digits", "decimal", "empty"} THEN "float"
    ELSE "object"

\* read_csv of one field of a column of type ty
ParseField(f, ty) ==
    IF f.k = "empty" THEN NaNCell
    ELSE IF ty = "int" THEN IntCell(f.n)
    ELSE IF ty = "float" THEN FloatCell(Norm(f.n, f.d))
    ELSE StrCell(f.n)

\* line 153: pd.read_csv(METRICS_FILE)
ReadCsv(file) ==
    LET cols == {file.header[i] : i \in 1..Len(file.header)}
        ty(c) == ColumnType({file.lines[i][c] : i \in 1..Len(file.lines)})
    IN  [columns |-> file.header,
         rows |-> Map(LAMBDA ln : [c \in cols |-> ParseField(ln[c], ty(c))], file.lines)]

\* the columns of b that a does not have, in b's order
NewColumns(a, b) == SelectSeq(b, LAMBDA c : \A i \in 1..Len(a) : a[i] # c)

\* the common type of a column after concatenation: an int column that meets
\* a float becomes float
Upcast(cells) ==
    LET ts == {cells[i].t : i \in 1..Len(cells)}
    IN  IF ts = {"int", "float"}
        THEN Map(LAMBDA c : IF c.t = "int" THEN FloatCell(Num(c.n)) ELSE c, cells)
        ELSE cells

\* a variant of Concat: the new frame's rows placed first
ConcatNewFirst(existing_df, df_row) ==
    LET columns == existing_df.columns \o NewColumns(existing_df.columns, df_row.columns)
        cols == {columns[i] : i \in 1..Len(columns)}
        fill(r) == [c \in cols |-> IF c \in DOMAIN r THEN r[c] ELSE NaNCell]
    IN  [columns |-> columns, rows |-> Map(fill, df_row.rows \o existing_df.rows)]

\* line 154: pd.concat([existing, df_row], ignore_index=True): the rows of
\* existing, then those of df_row, over the union of the columns
Concat(existing_df, df_row) ==
    LET columns == existing_df.columns \o NewColumns(existing_df.columns, df_row.columns)
        cols == {columns[i] : i \in 1..Len(columns)}
        fill(r) == [c \in cols |-> IF c \in DOMAIN r THEN r[c] ELSE NaNCell]
        all == Map(fill, existing_df.rows \o df_row.rows)
        col(c) == Upcast(Map(LAMBDA r : r[c], all))
    IN  [columns |-> columns,
         rows |-> [i \in 1..Len(all) |-> [c \in cols |-> col(c)[i]]]]

\* a variant of Rewrite: the new row written at the end of the file as it is
\* now (an append-mode write)
RewriteAppendMode(file, existing_df, df_row) ==
    [exists |-> TRUE,
     header |-> IF file.exists THEN file.header ELSE df_row.columns,
     lines |-> file.lines \o ToCsv(df_row).lines]

\* lines 154-155: the file after combined.to_csv: whatever it holds now is
\* replaced by the table read earlier plus the new row
Rewrite(file, existing_df, df_row) == ToCsv(Concat(existing_df, df_row))

\* the history file before it is ever written
NoFile == [exists |-> FALSE, header |-> <<>>, lines |-> <<>>]

\* lines 150-157: the history file after append_metrics(row)
append_metrics(file, row) ==
    LET df_row == SnapshotFrame(row)
    IN  IF file.exists
        THEN Rewrite(file, ReadCsv(file), df_row)
        ELSE ToCsv(df_row)

-----------------------------------------------------------------------------
(* load_data, _pick_layout, main *)

\* line 40
LAYOUT_CANDIDATE_FILENAMES == << "locations_data_extended.csv", "warehouse_layout.csv", "locations_data.csv" >>

\* args.layout when the option is not given
NoOverride == ""

\* lines 45-53: the layout path, or FileNotFoundError; fs.layouts maps a path
\* to [exists, table]
_pick_layout(fs, layout_override) ==
    IF layout_override # NoOverride
    THEN IF ~fs.layouts[layout_override].exists
         THEN [status |-> "FileNotFoundError", path |-> layout_override]
         ELSE [status |-> "ok", path |-> layout_override]
    ELSE LET found == { i \in 1..Len(LAYOUT_CANDIDATE_FILENAMES) :
                          fs.layouts[LAYOUT_CANDIDATE_FILENAMES[i]].exists }
         IN  IF found # {}
             THEN [status |-> "ok",
                   path |-> LAYOUT_CANDIDATE_FILENAMES[CHOOSE i \in found : \A j \in found : i <= j]]
             ELSE [status |-> "FileNotFoundError", path |-> NoOverride]

\* the value of a table that was not loaded
NoTable == [cols |-> {}, rows |-> <<>>]

NoInventory == [present |-> FALSE, cols |-> {}, rows |-> <<>>]

\* lines 56-68
load_data(fs, layout_override) ==
    IF ~fs.placements.exists
    THEN [status |-> "FileNotFoundError", placements |-> NoTable, layout |-> NoTable,
          inventory |-> NoInventory]
    ELSE LET picked == _pick_layout(fs, layout_override)
         IN  IF picked.status # "ok"
             THEN [status |-> picked.status, placements |-> NoTable, layout |-> NoTable,
                   inventory |-> NoInventory]
             ELSE [status |-> "ok",
                   placements |-> fs.placements.table,
                   layout |-> fs.layouts[picked.path].table,
                   inventory |-> IF fs.inventory.exists /\ fs.inventory.parsable
                                 THEN fs.inventory.table ELSE NoInventory]

\* a variant of ShouldAppend: the print-only flag ignored
ShouldAppendAlways(print_only) == TRUE

\* line 168
ShouldAppend(print_only) == ~print_only

\* lines 160-169: one run of the driver at clock reading now: how it ends,
\* the snapshot it computed, whether it called append_metrics, and the history
\* file afterwards
main(fs, file, layout_override, print_only, now) ==
    LET loaded == load_data(fs, layout_override)
        metrics == compute_kpis(loaded.placements, loaded.layout, loaded.inventory, now)
    IN  IF loaded.status # "ok"
        THEN [status |-> loaded.status, snapshot |-> NoSnapshot, appended |-> FALSE, history |-> file]
        ELSE IF metrics.status # "ok"
        THEN [status |-> metrics.status, snapshot |-> NoSnapshot, appended |-> FALSE, history |-> file]
        ELSE IF ShouldAppend(print_only)
        THEN [status |-> "ok", snapshot |-> metrics.snapshot, appended |-> TRUE,
              history |-> append_metrics(file, metrics.snapshot)]
        ELSE [status |-> "ok", snapshot |-> metrics.snapshot, appended |-> FALSE, history |-> file]

-----------------------------------------------------------------------------
(* The input tables the engine is run on *)

\* most rows of a placements table
MaxRows == 2

\* number of successive compute_kpis calls on the same table objects
MaxCalls == 2

RequiredPlacementCols == {"item_id", "recommended_location"}

AllPlacementCols == RequiredPlacementCols \cup OptionalPlacementCols

PlacementColSets ==
    { AllPlacementCols,
      RequiredPlacementCols,
      AllPlacementCols \ {"remaining_size", "remaining_weight"},
      AllPlacementCols \ {"allocated_volume", "allocated_weight"} }

Items == {"A", "B"}

RowLocations == {"L1", "L2", UNPLACED, Null}

Volumes == {NaN, Num(0), Num(1)}

Remaining == {NaN, Num(1), Num(2)}

SeqsUpTo(S, k) == UNION {[1..m -> S] : m \in 0..k}

PlacementRows(items, locs, vols, rems) ==
    [item_id : items, recommended_location : locs, allocated_volume : vols, remaining_size : rems]

\* a table whose absent columns hold no value
ConsistentPlacements(p) ==
    \A i \in 1..Len(p.rows) :
        /\ "allocated_volume" \notin p.cols => IsNaN(p.rows[i].allocated_volume)
        /\ "remaining_size" \notin p.cols => IsNaN(p.rows[i].remaining_size)

PlacementTables(rowDomain) ==
    { p \in [cols : PlacementColSets, rows : SeqsUpTo(rowDomain, MaxRows)] : ConsistentPlacements(p) }

LayoutCols == {"location_id", "x_coord", "y_coord", "max_size", "max_weight"}

LayoutRow(id, x, y, size) ==
    [location_id |-> id, x_coord |-> x, y_coord |-> y, max_size |-> size, distance |-> NaN]

\* marks a location the layout has no row for
NoRow == [n |-> 0, d |-> -1]

\* location L1 lies at (3, 4), location L2 at (6, 8); s1, s2: the max_size of
\* each, or NoRow
Sizes == {Num(0), Num(10), Num(20)}

LayoutRowsOf(s1, s2) ==
    (IF s1 = NoRow THEN <<>> ELSE << LayoutRow("L1", 3, 4, s1) >>)
    \o (IF s2 = NoRow THEN <<>> ELSE << LayoutRow("L2", 6, 8, s2) >>)

StripCoords(rows) == Map(LAMBDA r : [r EXCEPT !.x_coord = 0, !.y_coord = 0], rows)

StripSizes(rows) == Map(LAMBDA r : [r EXCEPT !.max_size = NaN], rows)

FullLayouts ==
    { [cols |-> LayoutCols, rows |-> rows] :
        rows \in {LayoutRowsOf(s1, s2) : s1 \in Sizes \cup {NoRow}, s2 \in Sizes \cup {NoRow}}
                 \cup {LayoutRowsOf(Num(-10), NoRow), LayoutRowsOf(Num(-10), Num(10))} }

NoCoordLayouts ==
    { [cols |-> LayoutCols \ {"x_coord", "y_coord"}, rows |-> StripCoords(l.rows)] : l \in FullLayouts }

NoSizeLayouts ==
    { [cols |-> l.cols \ {"max_size"}, rows |-> StripSizes(l.rows)] :
        l \in {f \in FullLayouts \cup NoCoordLayouts : Len(f.rows) = 2} }

CapacityLayouts == FullLayouts \cup NoSizeLayouts

DistanceLayouts ==
    { l \in FullLayouts \cup NoCoordLayouts \cup NoSizeLayouts :
        \A i \in 1..Len(l.rows) : l.rows[i].max_size \in {NaN, Num(10)} }

Demands == {NaN, Num(0), Num(1), Num(3)}

InventoryTables ==
    {NoInventory}
    \cup { [present |-> TRUE, cols |-> {"item_id"},
            rows |-> << [item_id |-> "A", demand_frequency |-> NaN] >>] }
    \cup { [present |-> TRUE, cols |-> {"item_id", "demand_frequency"},
            rows |-> << [item_id |-> "A", demand_frequency |-> da] >>] : da \in Demands }
    \cup { [present |-> TRUE, cols |-> {"item_id", "demand_frequency"},
            rows |-> << [item_id |-> "A", demand_frequency |-> da],
                        [item_id |-> "B", demand_frequency |-> db] >>] :
            da \in Demands \ {NaN}, db \in {Num(1)} }

\* volume family: allocated volumes vary, against every capacity layout
VolumeInputs ==
    PlacementTables(PlacementRows({"A"}, RowLocations, Volumes, {NaN}))
        \X CapacityLayouts \X {NoInventory}

\* residual family: remaining sizes vary, against every capacity layout
ResidualInputs ==
    PlacementTables(PlacementRows({"A"}, RowLocations, {NaN}, Remaining))
        \X CapacityLayouts \X {NoInventory}

\* distance family: items and locations vary, against layouts with and
\* without coordinates and every inventory table
DistanceInputs ==
    PlacementTables(PlacementRows(Items, RowLocations, {NaN}, {NaN}))
        \X DistanceLayouts \X InventoryTables

EngineInputs == VolumeInputs \cup ResidualInputs \cup DistanceInputs

-----------------------------------------------------------------------------
(* Idle values of the variables a specification does not use *)

EngineIdle ==
    /\ placements = NoTable
    /\ layout = NoTable
    /\ inventory = NoInventory
    /\ results = <<>>

DriverIdle ==
    /\ files = <<>>
    /\ log = <<>>

HistoryIdle == history = NoFile

RaceIdle ==
    /\ pc = <<>>
    /\ existing = <<>>

-----------------------------------------------------------------------------
(* Engine: compute_kpis called MaxCalls times on the same table objects *)

Init ==
    /\ \E inp \in EngineInputs :
          /\ placements = inp[1]
          /\ layout = inp[2]
          /\ inventory = inp[3]
    /\ results = <<>>
    /\ clock = 1
    /\ DriverIdle /\ HistoryIdle /\ RaceIdle

\* one call compute_kpis(placements, layout, inventory)
ComputeKpis ==
    /\ Len(results) < MaxCalls
    /\ LET r == compute_kpis(placements, layout, inventory, clock)
       IN  /\ placements' = r.placements
           /\ layout' = r.layout
           /\ results' = Append(results, [status |-> r.status, snapshot |-> r.snapshot])
    /\ clock' = clock + 1
    /\ UNCHANGED <<inventory, files, history, log, pc, existing>>

Next == ComputeKpis

Spec == Init /\ [][Next]_vars

-----------------------------------------------------------------------------
(* Driver: runs of main over the files on disk *)

\* number of driver runs
MaxRuns == 3

\* placements of the worked scenario: item A at L1 with volume 5, item B unplaced
ScenarioPlacements ==
    [cols |-> RequiredPlacementCols \cup {"allocated_volume"},
     rows |-> << [item_id |-> "A", recommended_location |-> "L1",
                  allocated_volume |-> Num(5), remaining_size |-> NaN],
                 [item_id |-> "B", recommended_location |-> UNPLACED,
                  allocated_volume |-> NaN, remaining_size |-> NaN] >>]

ResidualPlacements ==
    [cols |-> AllPlacementCols,
     rows |-> << [item_id |-> "A", recommended_location |-> "L1",
                  allocated_volume |-> Num(1), remaining_size |-> Num(2)],
                 [item_id |-> "B", recommended_location |-> "L2",
                  allocated_volume |-> Num(1), remaining_size |-> Num(1)] >>]

SamplePlacements == {ScenarioPlacements, ResidualPlacements}

\* the table each layout path holds when the file exists
LayoutFileTable(path) ==
    IF path = "locations_data_extended.csv"
    THEN [cols |-> LayoutCols, rows |-> LayoutRowsOf(Num(10), NoRow)]
    ELSE IF path = "warehouse_layout.csv"
    THEN [cols |-> LayoutCols \ {"x_coord", "y_coord"},
          rows |-> StripCoords(LayoutRowsOf(Num(20), Num(20)))]
    ELSE IF path = "locations_data.csv"
    THEN [cols |-> LayoutCols \ {"max_size"}, rows |-> StripSizes(LayoutRowsOf(Num(10), Num(10)))]
    ELSE [cols |-> LayoutCols, rows |-> LayoutRowsOf(Num(10), Num(20))]

LayoutPaths ==
    {LAYOUT_CANDIDATE_FILENAMES[i] : i \in 1..Len(LAYOUT_CANDIDATE_FILENAMES)} \cup {"custom_layout.csv"}

\* the values of --layout
Overrides == {NoOverride, "custom_layout.csv", "locations_data.csv"}

SampleInventory ==
    [present |-> TRUE, cols |-> {"item_id", "demand_frequency"},
     rows |-> << [item_id |-> "A", demand_frequency |-> Num(1)],
                 [item_id |-> "B", demand_frequency |-> Num(3)] >>]

DriverFiles ==
    [placements : {[exists |-> FALSE, table |-> NoTable]}
                  \cup {[exists |-> TRUE, table |-> t] : t \in SamplePlacements},
     layouts : { [q \in LayoutPaths |-> [exists |-> q \in S, table |-> LayoutFileTable(q)]] :
                   S \in SUBSET LayoutPaths },
     inventory : { [exists |-> FALSE, parsable |-> FALSE, table |-> NoInventory],
                   [exists |-> TRUE, parsable |-> FALSE, table |-> NoInventory],
                   [exists |-> TRUE, parsable |-> TRUE, table |-> SampleInventory] }]

NoRun == [status |-> "none", print_only |-> FALSE]

InitDriver ==
    /\ files \in DriverFiles
    /\ history = NoFile
    /\ log = [last |-> NoRun, passed |-> <<>>]
    /\ clock = 1
    /\ EngineIdle /\ RaceIdle

\* one invocation of the script, with its two options
Main(layout_override, print_only) ==
    /\ clock <= MaxRuns
    /\ LET r == main(files, history, layout_override, print_only, clock)
       IN  /\ history' = r.history
           /\ log' = [last |-> [status |-> r.status, print_only |-> print_only],
                      passed |-> IF r.appended THEN Append(log.passed, r.snapshot) ELSE log.passed]
    /\ clock' = clock + 1
    /\ UNCHANGED <<files, placements, layout, inventory, results, pc, existing>>

\* the upstream placement process replaces the placements file
UpstreamWrite(t) ==
    /\ clock <= MaxRuns
    /\ files.placements # [exists |-> TRUE, table |-> t]
    /\ files' = [files EXCEPT !.placements = [exists |-> TRUE, table |-> t]]
    /\ UNCHANGED <<history, log, clock, placements, layout, inventory, results, pc, existing>>

NextDriver ==
    \/ \E o \in Overrides, po \in BOOLEAN : Main(o, po)
    \/ \E t \in SamplePlacements : UpstreamWrite(t)

SpecDriver == InitDriver /\ [][NextDriver]_vars

-----------------------------------------------------------------------------
(* Race: two concurrent invocations of append_metrics, one step per statement *)

Procs == {1, 2}

\* the snapshots the invocations append; p's carries timestamp p
RaceSnapshots(p) ==
    { compute_kpis(t, LayoutFileTable("custom_layout.csv"), SampleInventory, p).snapshot :
        t \in SamplePlacements }

\* history tables written by earlier sequential runs
RaceHistories ==
    {NoFile}
    \cup { append_metrics(NoFile, [s EXCEPT !.timestamp = 8]) : s \in RaceSnapshots(1) }
    \cup { append_metrics(append_metrics(NoFile, [s EXCEPT !.timestamp = 8]), [t EXCEPT !.timestamp = 9]) :
             s \in RaceSnapshots(1), t \in RaceSnapshots(1) }

NoFrame == [columns |-> <<>>, rows |-> <<>>]

\* log: row[p] the snapshot p appends, base the file at the start, seen[p]
\* the number of data rows p read, writers the invocations in the order of
\* their writes
InitRace ==
    /\ history \in RaceHistories
    /\ pc = [p \in Procs |-> "exists"]
    /\ existing = [p \in Procs |-> NoFrame]
    /\ \E r \in [Procs -> UNION {RaceSnapshots(p) : p \in Procs}] :
          /\ \A p \in Procs : r[p] \in RaceSnapshots(p)
          /\ log = [row |-> r, base |-> history, seen |-> [p \in Procs |-> 0], writers |-> <<>>]
    /\ clock = 0
    /\ files = <<>>
    /\ EngineIdle

\* line 152: os.path.exists(METRICS_FILE)
Exists(p) ==
    /\ pc[p] = "exists"
    /\ pc' = [pc EXCEPT ![p] = IF history.exists THEN "read" ELSE "create"]
    /\ UNCHANGED <<history, existing, log, clock, files, placements, layout, inventory, results>>

\* line 153: existing = pd.read_csv(METRICS_FILE)
Read(p) ==
    /\ pc[p] = "read"
    /\ existing' = [existing EXCEPT ![p] = ReadCsv(history)]
    /\ log' = [log EXCEPT !.seen[p] = Len(history.lines)]
    /\ pc' = [pc EXCEPT ![p] = "write"]
    /\ UNCHANGED <<history, clock, files, placements, layout, inventory, results>>

\* lines 154-155: concat and to_csv
Write(p) ==
    /\ pc[p] = "write"
    /\ history' = Rewrite(history, existing[p], SnapshotFrame(log.row[p]))
    /\ log' = [log EXCEPT !.writers = Append(@, p)]
    /\ pc' = [pc EXCEPT ![p] = "done"]
    /\ UNCHANGED <<existing, clock, files, placements, layout, inventory, results>>

\* line 157: df_row.to_csv when the file was not there at line 152
Create(p) ==
    /\ pc[p] = "create"
    /\ history' = ToCsv(SnapshotFrame(log.row[p]))
    /\ log' = [log EXCEPT !.writers = Append(@, p)]
    /\ pc' = [pc EXCEPT ![p] = "done"]
    /\ UNCHANGED <<existing, clock, files, placements, layout, inventory, results>>

NextRace == \E p \in Procs : Exists(p) \/ Read(p) \/ Write(p) \/ Create(p)

SpecRace == InitRace /\ [][NextRace]_vars

-----------------------------------------------------------------------------
(* Properties of the engine, under Spec *)

Calls == 1..Len(results)

Returned(i) == results[i].status = "ok"

HasCoords == {"x_coord", "y_coord"} \subseteq layout.cols

HasSizes == "max_size" \in layout.cols

\* the sum of max_size over the layout rows, as an integer (the sampled sizes are integers)
RECURSIVE IntSum(_, _)
IntSum(f, S) ==
    IF S = {} THEN 0 ELSE LET x == CHOOSE y \in S : TRUE IN f[x] + IntSum(f, S \ {x})

LayoutCapacity ==
    IntSum([i \in 1..Len(layout.rows) |-> layout.rows[i].max_size.n], 1..Len(layout.rows))

\* 0 <= v <= 1
InUnitInterval(v) == v.d > 0 /\ 0 <= v.n /\ v.n <= v.d

\* C2: when the layout has no x/y columns, every returned snapshot has an
\* undefined avg_distance and an undefined weighted_distance.
C2_NoCoordsDistancesUndefined ==
    \A i \in Calls :
        (Returned(i) /\ ~HasCoords) =>
            /\ IsNaN(results[i].snapshot.avg_distance)
            /\ IsNaN(results[i].snapshot.weighted_distance)

\* C3: when the total layout capacity is zero, negative or absent (no max_size
\* column), compute_kpis returns (does not raise) and capacity_ratio is undefined.
C3_CapacityRatioUndefinedNeverRaises ==
    \A i \in Calls :
        (~HasSizes \/ LayoutCapacity <= 0) =>
            /\ Returned(i)
            /\ IsNaN(results[i].snapshot.capacity_ratio)

\* C4: a compute_kpis call leaves the placements, layout and inventory tables
\* passed in with the same columns and the same cell values.
C4_InputsReadOnly ==
    [][(ComputeKpis /\ results'[Len(results')].status = "ok")
          => (placements' = placements /\ layout' = layout /\ inventory' = inventory)]_vars

\* the rows of the placements table that have a defined remaining_size and a
\* recommended_location, by position
Qualifying ==
    { i \in 1..Len(placements.rows) :
        /\ ~IsNaN(placements.rows[i].remaining_size)
        /\ placements.rows[i].recommended_location # Null }

\* of these, the last one of each recommended_location
LastQualifying ==
    { i \in Qualifying :
        \A j \in Qualifying :
            placements.rows[j].recommended_location = placements.rows[i].recommended_location
                => j <= i }

ExpectedFreeRatio ==
    IF ~HasSizes \/ LayoutCapacity <= 0 \/ Qualifying = {}
    THEN NaN
    ELSE Norm(IntSum([i \in LastQualifying |-> placements.rows[i].remaining_size.n], LastQualifying),
              LayoutCapacity)

\* C5: compute_kpis returns free_effective_capacity_ratio = (sum of the
\* remaining_size of the last row, among those with a defined remaining_size,
\* of each recommended_location) / total_capacity, and returns it undefined
\* when total_capacity is undefined or not positive or no row qualifies.
C5_FreeEffectiveCapacityRatio ==
    \A i \in Calls :
        /\ ~HasSizes => Returned(i)
        /\ results[i].snapshot.free_effective_capacity_ratio = ExpectedFreeRatio

\* the same statement for the calls that return
FreeRatioWhenReturned ==
    \A i \in Calls :
        Returned(i) => results[i].snapshot.free_effective_capacity_ratio = ExpectedFreeRatio

\* C6: in every returned snapshot unplaced_rate is undefined iff the joined
\* table has no rows, and lies in [0, 1] when defined.
C6_UnplacedRate ==
    \A i \in Calls :
        Returned(i) =>
            LET u == results[i].snapshot.unplaced_rate
                joined == Merged(placements, layout)
            IN  /\ IsNaN(u) <=> (Len(joined) = 0)
                /\ ~IsNaN(u) => InUnitInterval(u)

C6_Witness ==
    /\ Len(results) >= 1 /\ Returned(1)
    /\ results[1].snapshot.unplaced_rate = [n |-> 1, d |-> 2]

\* the aggregate groups: the locations that some placed row with a defined
\* allocated_volume names
ShelfGroups ==
    { placements.rows[i].recommended_location :
        i \in { j \in 1..Len(placements.rows) :
                  /\ placements.rows[j].recommended_location \notin {Null, UNPLACED}
                  /\ ~IsNaN(placements.rows[j].allocated_volume) } }

GroupVolume(k) ==
    LET S == { j \in 1..Len(placements.rows) :
                 /\ placements.rows[j].recommended_location = k
                 /\ ~IsNaN(placements.rows[j].allocated_volume) }
    IN  IntSum([j \in S |-> placements.rows[j].allocated_volume.n], S)

\* the max_size of location k: a number, or NaN when the layout has no row or no size for it
GroupSize(k) ==
    LET S == { j \in 1..Len(layout.rows) : layout.rows[j].location_id = k }
    IN  IF S = {} THEN NaN ELSE layout.rows[CHOOSE j \in S : TRUE].max_size

\* 0 < volume / size < 1/10, in integers
StrictlyFragmented(k) ==
    LET v == GroupVolume(k)
        c == GroupSize(k)
    IN  /\ ~IsNaN(c)
        /\ \/ c.n > 0 /\ v > 0 /\ 10 * v < c.n
           \/ c.n < 0 /\ v < 0 /\ 10 * v > c.n

\* C7: fragmentation_rate = (number of aggregate groups whose utilization is
\* strictly between 0 and 0.1) / (number of aggregate groups); a group with
\* utilization 0, 0.1 or undefined is not counted; undefined with no group.
C7_FragmentationRate ==
    \A i \in Calls :
        Returned(i) =>
            results[i].snapshot.fragmentation_rate =
                IF ShelfGroups = {} THEN NaN
                ELSE Norm(Cardinality({k \in ShelfGroups : StrictlyFragmented(k)}),
                          Cardinality(ShelfGroups))

\* one shelf at utilization exactly 0.1 (not counted), one at 0.05 (counted)
C7_Witness ==
    /\ Len(results) >= 1 /\ Returned(1)
    /\ \E k \in ShelfGroups : GroupSize(k).n = 10 * GroupVolume(k) /\ GroupVolume(k) > 0
    /\ \E k \in ShelfGroups : StrictlyFragmented(k)
    /\ results[1].snapshot.fragmentation_rate = [n |-> 1, d |-> 2]

NonTimestamp(snap) == [k \in DOMAIN snap \ {"timestamp"} |-> snap[k]]

\* C9: successive compute_kpis calls on the same table objects give the same
\* outcome: snapshots with the same keys and the same value for every key
\* except timestamp.
C9_Idempotent ==
    \A i, j \in Calls :
        /\ results[i].status = results[j].status
        /\ DOMAIN results[i].snapshot = DOMAIN results[j].snapshot
        /\ NonTimestamp(results[i].snapshot) = NonTimestamp(results[j].snapshot)

\* two calls on tables the first call changed (optional columns added), with
\* different timestamps
C9_Witness ==
    /\ Len(results) >= 2 /\ Returned(2)
    /\ results[1].snapshot.timestamp # results[2].snapshot.timestamp
    /\ ~IsNaN(results[2].snapshot.free_effective_capacity_ratio)
    /\ results[2].snapshot.rows = MaxRows

-----------------------------------------------------------------------------
(* Properties of the appender and the driver, under SpecDriver *)

\* the value a snapshot holds under key k, as a number
SnapshotValue(snap, k) == IF k \in {"rows", "placed_rows"} THEN Num(snap[k]) ELSE snap[k]

\* the value of a cell of the history table as read back
CellValue(c) == [n |-> c.n, d |-> c.d]

KpiKeys == {SnapshotKeys[i] : i \in 2..Len(SnapshotKeys)}

PlacementsMissing == ~files.placements.exists

LayoutMissing(o) ==
    IF o # NoOverride THEN ~files.layouts[o].exists
    ELSE \A i \in 1..Len(LAYOUT_CANDIDATE_FILENAMES) : ~files.layouts[LAYOUT_CANDIDATE_FILENAMES[i]].exists

\* history' is history with exactly one data row added at the end
OneRowAppended ==
    /\ history'.exists
    /\ Len(history'.lines) = Len(history.lines) + 1
    /\ \A i \in 1..Len(history.lines) : history'.lines[i] = history.lines[i]

\* C8: a driver run that loads and computes successfully without --print-only
\* appends exactly one row to the history table; a --print-only run and a run
\* aborted by a missing placements or layout source leave the history table
\* (and its absence) as it was; no other run changes it.
C8_DriverHistory ==
    [][\A o \in Overrides, po \in BOOLEAN :
          Main(o, po) =>
             /\ (log'.last.status = "ok" /\ ~po) => OneRowAppended
             /\ (po \/ PlacementsMissing \/ LayoutMissing(o)) => history' = history
             /\ history' # history => (log'.last.status = "ok" /\ ~po)
             /\ (PlacementsMissing \/ LayoutMissing(o)) => log'.last.status = "FileNotFoundError"]_vars

\* a --print-only run that succeeded after an earlier run aborted and another appended
C8_Witness ==
    /\ clock = MaxRuns + 1
    /\ log.last = [status |-> "ok", print_only |-> TRUE]
    /\ Len(history.lines) = 1

-----------------------------------------------------------------------------
(* Properties of concurrent appends, under SpecRace *)

AllDone == \A p \in Procs : pc[p] = "done"

LastWriter == log.writers[Len(log.writers)]

\* the line to_csv writes for snapshot snap
LineOf(snap) == ToCsv(SnapshotFrame(snap)).lines[1]

\* every invocation read the file before any invocation wrote it
AllReadBeforeAnyWrite == \A p \in Procs : log.seen[p] = Len(log.base.lines)

\* C10: with no lock around read-then-rewrite, once all concurrent appends to
\* an existing history table have completed the table is what the last writer
\* read plus the last writer's row; when every invocation read before any
\* wrote, that is the original rows plus one new row only, fewer data rows
\* than completed appends.
C10_LastWriterWins ==
    (AllDone /\ log.base.exists) =>
        /\ Len(history.lines) = log.seen[LastWriter] + 1
        /\ history.lines[Len(history.lines)] = LineOf(log.row[LastWriter])
        /\ AllReadBeforeAnyWrite =>
              /\ history.lines = log.base.lines \o << LineOf(log.row[LastWriter]) >>
              /\ Len(history.lines) < Len(log.base.lines) + Cardinality(Procs)

\* both appends completed on an existing table, and only the last writer's row was added
C10_Witness ==
    /\ AllDone /\ log.base.exists
    /\ AllReadBeforeAnyWrite
    /\ Len(history.lines) = Len(log.base.lines) + 1
    /\ \E p \in Procs : p # LastWriter /\ \A i \in 1..Len(history.lines) : history.lines[i] # LineOf(log.row[p])

=============================================================================
